---------------------------- MODULE Spec2Model ----------------------------
(***************************************************************************)
(* Policy Pilot: the retrieval pipeline of chatbot.py and web_app.py.      *)
(*                                                                         *)
(*   SpecChunk   chunk_text, one loop iteration per step                   *)
(*   SpecAnswer  a query from retrieval to the final Answer: run_llm,      *)
(*               extract_json, normalize_response and the back-fill of the *)
(*               Justification; and normalize_response called directly     *)
(*   Spec        the web service: request threads running build, query and *)
(*               upload against the shared STATE and the index directory,  *)
(*               one access to shared state or to a file per step, and the *)
(*               process being killed and started again                    *)
(*   SpecSeq     the same service serving one request at a time, each to   *)
(*               its end, and stopped only between requests                *)
(*   SpecLoad    load_index called on its own over any three files         *)
(*   SpecPrompt  build_prompt called on its own                            *)
(*   SpecBuild   build_index entered over an empty index directory, by one *)
(*               thread or by two side by side                             *)
(*                                                                         *)
(* Document texts are sequences of one-character strings.  A completion    *)
(* text of the language model is a sequence of lexical tokens.  A Python   *)
(* value is a record whose single field names its type.                    *)
(***************************************************************************)
EXTENDS Integers, Sequences, FiniteSets, TLC

VARIABLES
    \* chunk_text (chatbot.py 91-105)
    input_text,     \* the text argument as passed by the caller
    chunk_size,     \* the chunk_size argument
    overlap,        \* the overlap argument
    text,           \* the local text after line 92
    start,          \* the local start
    chunks,         \* the local chunks
    windows,        \* history: <<start, end>> of every iteration of the loop
    cpc,            \* position in chunk_text: "idle", "call", "loop", "done"
    \* query (web_app.py 295-310), run_llm (chatbot.py 252-273)
    acall,          \* the entry point called: "query", "normalize_response"
                    \* or "build_prompt"
    user_query,     \* the local user_query of query / the query argument
    context,        \* the chunks retrieve_chunks returned
    prompt,         \* the local prompt of query / the returned string,
                    \* as the sequence of the strings it is made of
    raw,            \* the local raw of run_llm
    parsed,         \* the local parsed of run_llm / the data argument
    normalized,     \* the local normalized of run_llm / the returned value
    answer,         \* the local answer of query
    aerr,           \* the exception that ended the call, "" if none
    apc,            \* position in the call
    \* the web service (web_app.py) and the files it works on
    data_dir,       \* DATA_DIR: the sources of the PDFs it holds
    cleaned_dir,    \* CLEANED_DIR: the sources of the text files it holds
    INDEX_PATH,     \* index/faiss.index: Absent or the index written
    EMBEDDINGS_PATH,\* index/embeddings.npy: Absent or the matrix written
    CHUNKS_PATH,    \* index/chunks.pkl: Absent or the chunk list written
    State,          \* web_app.STATE (STATE is a reserved word of TLA+)
    th,             \* per request thread: position, request and locals
    nreq,           \* requests started so far
    ncrash          \* times the process was killed or stopped so far

chunkVars == <<input_text, chunk_size, overlap, text, start, chunks, windows, cpc>>
answerVars ==
    <<acall, user_query, context, prompt, raw, parsed, normalized, answer,
      aerr, apc>>
diskVars == <<data_dir, cleaned_dir, INDEX_PATH, EMBEDDINGS_PATH, CHUNKS_PATH>>
sysVars == <<diskVars, State, th, nreq, ncrash>>
vars == <<chunkVars, answerVars, sysVars>>

(***************************************************************************)
(* Bounds                                                                  *)
(***************************************************************************)
MaxTextLen == 4
MaxChunkSize == 4
MaxOverlap == 3
MaxRawLen == 3
MaxJustification == 2
MaxRequests == 3
MaxCrashes == 1
MaxTopK == 3
MaxContext == 3

Min(a, b) == IF a < b THEN a ELSE b
Max(a, b) == IF a > b THEN a ELSE b

(***************************************************************************)
(* Strings                                                                 *)
(***************************************************************************)
Letters == {"a", "b"}
Spaces == {" ", "\t"}
Chars == Letters \cup Spaces

\* what \s of re and str.strip() treat as whitespace
IsSpace(c) == c \in Spaces

RECURSIVE LStrip(_)
LStrip(s) ==
    IF s # <<>> /\ IsSpace(Head(s)) THEN LStrip(Tail(s)) ELSE s

RECURSIVE RStrip(_)
RStrip(s) ==
    IF s # <<>> /\ IsSpace(s[Len(s)]) THEN RStrip(SubSeq(s, 1, Len(s) - 1)) ELSE s

\* str.strip()
Strip(s) == RStrip(LStrip(s))

\* re.sub(r"\s+", " ", s) without collapsing: every whitespace character
\* becomes a space of its own
RECURSIVE CollapseWsEachChar(_)
CollapseWsEachChar(s) ==
    IF s = <<>> THEN <<>>
    ELSE IF IsSpace(Head(s)) THEN <<" ">> \o CollapseWsEachChar(Tail(s))
    ELSE <<Head(s)>> \o CollapseWsEachChar(Tail(s))

\* re.sub(r"\s+", " ", s): every maximal run of whitespace becomes one space
RECURSIVE CollapseWs(_)
CollapseWs(s) ==
    IF s = <<>> THEN <<>>
    ELSE IF IsSpace(Head(s)) THEN <<" ">> \o CollapseWs(LStrip(Tail(s)))
    ELSE <<Head(s)>> \o CollapseWs(Tail(s))

\* text[i:j] of Python for i >= 0 (a negative j counts from the end)
PySlice(s, i, j) ==
    LET n == Len(s)
        lo == Min(i, n)
        hi == IF j < 0 THEN Max(0, n + j) ELSE Min(j, n)
    IN  SubSeq(s, lo + 1, hi)

\* All sequences over S of length at most n
SeqsUpTo(S, n) == UNION {[1..k -> S] : k \in 0..n}

(***************************************************************************)
(* Python values                                                           *)
(***************************************************************************)
PStr(s) == [str |-> s]
PNum(n) == [num |-> n]
PNone == [none |-> TRUE]
PList(items) == [list |-> items]
\* a dict is the sequence of its <<key, value>> items, in insertion order
PDict(items) == [dict |-> items]

IsStr(v) == "str" \in DOMAIN v
IsNum(v) == "num" \in DOMAIN v
IsNone(v) == "none" \in DOMAIN v
IsList(v) == "list" \in DOMAIN v
IsDict(v) == "dict" \in DOMAIN v

\* no call of query or normalize_response is in progress
AnswerIdle ==
    /\ acall = "none" /\ user_query = "" /\ context = <<>> /\ prompt = <<>>
    /\ raw = <<>> /\ parsed = PNone
    /\ normalized = PNone /\ answer = PNone /\ aerr = "" /\ apc = "idle"

Threads == {"t1", "t2"}

Absent == [absent |-> TRUE]
IsAbsent(f) == "absent" \in DOMAIN f

\* STATE as web_app.py 53-59 sets it; embedder and llm hold "none" or the
\* thread that constructed the handle
InitialState ==
    [embedder |-> "none", index |-> PNone, chunks |-> PNone, llm |-> "none",
     status |-> <<"">>]

\* a thread that serves no request
IdleThread ==
    [pc |-> "idle", kind |-> "none", rebuild |-> FALSE, use_cleaned |-> FALSE,
     cs |-> 0, ov |-> 0, q |-> <<>>, top_k |-> 0, model_exists |-> TRUE,
     file |-> "", via |-> "", index |-> PNone, embeddings |-> PNone,
     chunks |-> PNone, context |-> <<>>, err |-> ""]

\* the service is not running and has no file
SysIdle ==
    /\ data_dir = {} /\ cleaned_dir = {}
    /\ INDEX_PATH = Absent /\ EMBEDDINGS_PATH = Absent /\ CHUNKS_PATH = Absent
    /\ State = InitialState
    /\ th = [t \in Threads |-> IdleThread]
    /\ nreq = 0 /\ ncrash = 0

(***************************************************************************)
(* chunk_text                                                              *)
(***************************************************************************)
\* line 104 without the overlap: the next window starts where this one ended
NextStartNoOverlap(end, ov) == Max(0, end)

\* line 104
NextStart(end, ov) == Max(0, end - ov)

\* line 98
WindowEnd(t, st, size) == Min(Len(t), st + size)

\* the test-suite input (tests/test_chatbot.py 39-40)
Alphabet ==
    << "a", "b", "c", "d", "e", "f", "g", "h", "i", "j", "k", "l", "m",
       "n", "o", "p", "q", "r", "s", "t", "u", "v", "w", "x", "y", "z" >>
TestChunkSize == 10
TestOverlap == 3

\* no call of chunk_text is in progress
ChunkIdle ==
    /\ input_text = <<>> /\ chunk_size = 0 /\ overlap = 0 /\ text = <<>>
    /\ start = 0 /\ chunks = <<>> /\ windows = <<>> /\ cpc = "idle"

ChunkInputs ==
    (SeqsUpTo(Chars, MaxTextLen) \X (-1..MaxChunkSize) \X (-1..MaxOverlap))
        \cup {<<Alphabet, TestChunkSize, TestOverlap>>}

InitChunk ==
    /\ \E inp \in ChunkInputs :
          /\ input_text = inp[1]
          /\ chunk_size = inp[2]
          /\ overlap = inp[3]
    /\ text = <<>>
    /\ start = 0
    /\ chunks = <<>>
    /\ windows = <<>>
    /\ cpc = "call"
    /\ AnswerIdle
    /\ SysIdle

\* lines 92-96
ChunkEnter ==
    /\ cpc = "call"
    /\ text' = Strip(CollapseWs(input_text))
    /\ start' = 0
    /\ chunks' = <<>>
    /\ cpc' = IF text' = <<>> THEN "done" ELSE "loop"
    /\ UNCHANGED <<input_text, chunk_size, overlap, windows>>
    /\ UNCHANGED <<answerVars, sysVars>>

\* lines 97-104: the loop test and one pass through the body.  A run that
\* advances on every pass needs at most Len(text) passes; a run that has made
\* more is stopped here, where the code would go on forever.
ChunkLoop ==
    /\ cpc = "loop"
    /\ Len(windows) <= Len(text)
    /\ IF ~(start < Len(text))
         THEN /\ cpc' = "done"
              /\ UNCHANGED <<start, chunks, windows>>
         ELSE LET end == WindowEnd(text, start, chunk_size)
                  chunk == Strip(PySlice(text, start, end))
              IN  /\ chunks' = IF chunk # <<>> THEN Append(chunks, chunk) ELSE chunks
                  /\ windows' = Append(windows, <<start, end>>)
                  /\ IF end >= Len(text)
                       THEN cpc' = "done" /\ start' = start
                       ELSE cpc' = "loop" /\ start' = NextStart(end, overlap)
    /\ UNCHANGED <<input_text, chunk_size, overlap, text>>
    /\ UNCHANGED <<answerVars, sysVars>>

NextChunk == ChunkEnter \/ ChunkLoop

SpecChunk == InitChunk /\ [][NextChunk]_vars

(***************************************************************************)
(* Claims about chunk_text                                                 *)
(***************************************************************************)
\* " ".join(text.split()): the words of the text, one space between them
RECURSIVE SplitWords(_, _)
SplitWords(s, cur) ==
    LET flush == IF cur = <<>> THEN <<>> ELSE <<cur>>
    IN  IF s = <<>> THEN flush
        ELSE IF IsSpace(Head(s)) THEN flush \o SplitWords(Tail(s), <<>>)
        ELSE SplitWords(Tail(s), Append(cur, Head(s)))

RECURSIVE JoinWords(_)
JoinWords(ws) ==
    IF ws = <<>> THEN <<>>
    ELSE IF Len(ws) = 1 THEN ws[1]
    ELSE ws[1] \o <<" ">> \o JoinWords(Tail(ws))

WhitespaceNormalized(s) == JoinWords(SplitWords(s, <<>>))

RECURSIVE ConcatWithoutOverlap(_, _)
ConcatWithoutOverlap(cs, ov) ==
    IF cs = <<>> THEN <<>>
    ELSE SubSeq(Head(cs), ov + 1, Len(Head(cs))) \o ConcatWithoutOverlap(Tail(cs), ov)

\* the first chunk followed by every later chunk without its first ov characters
Reassemble(cs, ov) ==
    IF cs = <<>> THEN <<>> ELSE Head(cs) \o ConcatWithoutOverlap(Tail(cs), ov)

OverlapBelowSize == 0 <= overlap /\ overlap < chunk_size

NoWindowTouchesSpace ==
    \A k \in 1..Len(windows) :
        /\ ~IsSpace(text[windows[k][1] + 1])
        /\ ~IsSpace(text[windows[k][2]])

\* C1 as stated: for 0 <= overlap < chunk_size the chunks, reassembled with the
\* overlap removed, are the whitespace-normalized input.
C1_ChunksReconstructInput ==
    (cpc = "done" /\ OverlapBelowSize)
        => Reassemble(chunks, overlap) = WhitespaceNormalized(input_text)

\* C1 amended: for 0 <= overlap < chunk_size, when no window of the normalized
\* text begins or ends with a space (every chunk is its window, trimmed), the
\* reassembled chunks are the whitespace-normalized input.
C1_ChunksReconstructUntrimmed ==
    (cpc = "done" /\ OverlapBelowSize /\ NoWindowTouchesSpace)
        => Reassemble(chunks, overlap) = WhitespaceNormalized(input_text)

\* a text whose normalization changed it, cut into overlapping chunks none of
\* which was trimmed
C1_Witness ==
    /\ cpc = "done" /\ OverlapBelowSize /\ NoWindowTouchesSpace
    /\ overlap >= 1 /\ Len(chunks) >= 2
    /\ text # input_text
    /\ \E i \in 1..Len(text) : IsSpace(text[i])
    /\ Reassemble(chunks, overlap) = text

\* C2 as stated: every pass of the loop that does not end it moves start
\* forward by at least 1 (so the loop ends), whatever chunk_size and overlap.
C2_StartAdvances ==
    [][(cpc = "loop" /\ cpc' = "loop") => start' > start]_vars

NoWhitespace(s) == \A i \in 1..Len(s) : ~IsSpace(s[i])

TestChunks ==
    << << "a", "b", "c", "d", "e", "f", "g", "h", "i", "j" >>,
       << "h", "i", "j", "k", "l", "m", "n", "o", "p", "q" >>,
       << "o", "p", "q", "r", "s", "t", "u", "v", "w", "x" >>,
       << "v", "w", "x", "y", "z" >> >>

\* C3: for text without whitespace and 0 <= overlap < chunk_size, window k
\* (from 0) starts at k*(chunk_size - overlap), before len(text), and spans
\* chunk_size characters, except the last, which ends at len(text) and ends the
\* loop; each chunk is its window; the alphabet cut at (10, 3) is the test's list.
C3_WindowLayout ==
    (NoWhitespace(input_text) /\ OverlapBelowSize) =>
        /\ \A k \in 1..Len(windows) :
              /\ windows[k][1] = (k - 1) * (chunk_size - overlap)
              /\ windows[k][1] < Len(text)
              /\ \/ /\ windows[k][2] = windows[k][1] + chunk_size
                    /\ windows[k][2] < Len(text)
                    /\ (k = Len(windows) => cpc = "loop")
                 \/ /\ k = Len(windows)
                    /\ windows[k][2] = Len(text)
                    /\ windows[k][2] <= windows[k][1] + chunk_size
                    /\ cpc = "done"
        /\ (cpc = "done" /\ input_text # <<>>) =>
              (windows # <<>> /\ windows[Len(windows)][2] = Len(input_text))
        /\ Len(chunks) = Len(windows)
        /\ \A k \in 1..Len(windows) :
              chunks[k] = SubSeq(input_text, windows[k][1] + 1, windows[k][2])
        /\ (cpc = "done" /\ input_text = Alphabet /\ chunk_size = TestChunkSize
                /\ overlap = TestOverlap) => chunks = TestChunks

\* three overlapping windows over a text without whitespace, the last one short
C3_Witness ==
    /\ cpc = "done" /\ NoWhitespace(input_text) /\ OverlapBelowSize
    /\ overlap >= 1 /\ Len(windows) >= 3
    /\ windows[Len(windows)][2] - windows[Len(windows)][1] < chunk_size

(***************************************************************************)
(* Completion texts and json.loads                                         *)
(*                                                                         *)
(* A text is a sequence of tokens: a punctuation character [p], a JSON     *)
(* string literal [s] (its content), a JSON number literal [n] (its        *)
(* digits), a bare word [w], a run of whitespace [sp], and a run [run] of  *)
(* len opening brackets.                                                   *)
(***************************************************************************)
P(c) == [p |-> c]
S(x) == [s |-> x]
N(d) == [n |-> d]
W(x) == [w |-> x]
Sp == [sp |-> " "]
Run(c, k) == [run |-> c, len |-> k]

IsP(t, c) == "p" \in DOMAIN t /\ t.p = c
IsWs(t) == "sp" \in DOMAIN t

\* the nesting depth at which CPython's decoder raises RecursionError
\* (sys.getrecursionlimit())
RecursionLimit == 1000
\* a completion that opens this many arrays
DeepNesting == 100000

NumberValues == {0, 12}
\* int(digits)
NumeralValue(d) == CHOOSE k \in NumberValues : ToString(k) = d

RECURSIVE SkipWs(_, _)
SkipWs(toks, i) ==
    IF i <= Len(toks) /\ IsWs(toks[i]) THEN SkipWs(toks, i + 1) ELSE i

EndOfText == [end |-> TRUE]
TokAt(toks, i) == IF i <= Len(toks) THEN toks[i] ELSE EndOfText

Parsed(v, i) == [ok |-> TRUE, val |-> v, next |-> i]
ParseError(e) == [ok |-> FALSE, err |-> e]

RECURSIVE DictSet(_, _, _)
\* d[k] = v: a key already present keeps its place
DictSet(items, k, v) ==
    IF items = <<>> THEN << <<k, v>> >>
    ELSE IF Head(items)[1] = k THEN << <<k, v>> >> \o Tail(items)
    ELSE <<Head(items)>> \o DictSet(Tail(items), k, v)

RECURSIVE ParseValue(_, _)
RECURSIVE ParseMembers(_, _, _)
RECURSIVE ParseElements(_, _, _)

\* the members of an object from token i on, up to and including its "}"
ParseMembers(toks, i0, acc) ==
    LET i == SkipWs(toks, i0)
        key == TokAt(toks, i)
        c == SkipWs(toks, i + 1)
    IN  IF ~("s" \in DOMAIN key) \/ ~IsP(TokAt(toks, c), ":")
          THEN ParseError("JSONDecodeError")
          ELSE LET r == ParseValue(toks, c + 1)
               IN  IF ~r.ok THEN r
                   ELSE LET j == SkipWs(toks, r.next)
                            items == DictSet(acc, key.s, r.val)
                        IN  IF IsP(TokAt(toks, j), ",")
                              THEN ParseMembers(toks, j + 1, items)
                            ELSE IF IsP(TokAt(toks, j), "}")
                              THEN Parsed(PDict(items), j + 1)
                            ELSE ParseError("JSONDecodeError")

\* the elements of an array from token i on, up to and including its "]"
ParseElements(toks, i0, acc) ==
    LET r == ParseValue(toks, i0)
    IN  IF ~r.ok THEN r
        ELSE LET j == SkipWs(toks, r.next)
                 items == Append(acc, r.val)
             IN  IF IsP(TokAt(toks, j), ",")
                   THEN ParseElements(toks, j + 1, items)
                 ELSE IF IsP(TokAt(toks, j), "]")
                   THEN Parsed(PList(items), j + 1)
                 ELSE ParseError("JSONDecodeError")

\* one JSON value from token i on
ParseValue(toks, i0) ==
    LET i == SkipWs(toks, i0)
        t == TokAt(toks, i)
    IN  IF "s" \in DOMAIN t THEN Parsed(PStr(t.s), i + 1)
        ELSE IF "n" \in DOMAIN t THEN Parsed(PNum(NumeralValue(t.n)), i + 1)
        ELSE IF "w" \in DOMAIN t /\ t.w = "null" THEN Parsed(PNone, i + 1)
        ELSE IF "run" \in DOMAIN t /\ t.run = "[" /\ t.len > RecursionLimit
          THEN ParseError("RecursionError")
        ELSE IF IsP(t, "{")
          THEN IF IsP(TokAt(toks, SkipWs(toks, i + 1)), "}")
                 THEN Parsed(PDict(<<>>), SkipWs(toks, i + 1) + 1)
                 ELSE ParseMembers(toks, i + 1, <<>>)
        ELSE IF IsP(t, "[")
          THEN IF IsP(TokAt(toks, SkipWs(toks, i + 1)), "]")
                 THEN Parsed(PList(<<>>), SkipWs(toks, i + 1) + 1)
                 ELSE ParseElements(toks, i + 1, <<>>)
        ELSE ParseError("JSONDecodeError")

\* json.loads: one value and nothing but whitespace after it
JsonLoads(toks) ==
    LET r == ParseValue(toks, 1)
    IN  IF ~r.ok THEN r
        ELSE IF SkipWs(toks, r.next) <= Len(toks) THEN ParseError("JSONDecodeError")
        ELSE r

(***************************************************************************)
(* extract_json                                                            *)
(***************************************************************************)
RECURSIVE FindFrom(_, _, _)
FindFrom(toks, c, i) ==
    IF i > Len(toks) THEN -1
    ELSE IF IsP(toks[i], c) THEN i - 1
    ELSE FindFrom(toks, c, i + 1)

\* text.find(c): the offset of the first c, -1 if there is none
Find(toks, c) == FindFrom(toks, c, 1)

RECURSIVE RFindFrom(_, _, _)
RFindFrom(toks, c, i) ==
    IF i < 1 THEN -1
    ELSE IF IsP(toks[i], c) THEN i - 1
    ELSE RFindFrom(toks, c, i - 1)

\* text.rfind(c): the offset of the last c, -1 if there is none
RFind(toks, c) == RFindFrom(toks, c, Len(toks))

Returns(v) == [returned |-> v]
Raises(e) == [raised |-> e]
HasRaised(r) == "raised" \in DOMAIN r

\* line 214: text[start : end + 1]
Candidate(toks, st, end) == PySlice(toks, st, end + 1)

\* lines 209-218
ExtractJson(toks) ==
    LET st == Find(toks, "{")
        end == RFind(toks, "}")
    IN  IF st = -1 \/ end = -1 \/ end <= st THEN Returns(PNone)
        ELSE LET r == JsonLoads(Candidate(toks, st, end))
             IN  IF r.ok THEN Returns(r.val)
                 ELSE IF r.err = "JSONDecodeError" THEN Returns(PNone)
                 ELSE Raises(r.err)

(***************************************************************************)
(* normalize_response                                                      *)
(***************************************************************************)
RECURSIVE DictHas(_, _)
\* k in d
DictHas(items, k) ==
    items # <<>> /\ (Head(items)[1] = k \/ DictHas(Tail(items), k))

RECURSIVE DictGet(_, _, _)
\* d.get(k, default)
DictGet(items, k, default) ==
    IF items = <<>> THEN default
    ELSE IF Head(items)[1] = k THEN Head(items)[2]
    ELSE DictGet(Tail(items), k, default)

RECURSIVE PyRepr(_)
RECURSIVE ReprItems(_)
RECURSIVE ReprMembers(_)

ReprItems(items) ==
    IF items = <<>> THEN ""
    ELSE IF Len(items) = 1 THEN PyRepr(items[1])
    ELSE PyRepr(items[1]) \o ", " \o ReprItems(Tail(items))

ReprMembers(items) ==
    IF items = <<>> THEN ""
    ELSE LET one == "'" \o items[1][1] \o "': " \o PyRepr(items[1][2])
         IN  IF Len(items) = 1 THEN one ELSE one \o ", " \o ReprMembers(Tail(items))

\* repr(v)
PyRepr(v) ==
    IF IsStr(v) THEN "'" \o v.str \o "'"
    ELSE IF IsNum(v) THEN ToString(v.num)
    ELSE IF IsNone(v) THEN "None"
    ELSE IF IsList(v) THEN "[" \o ReprItems(v.list) \o "]"
    ELSE "{" \o ReprMembers(v.dict) \o "}"

\* str(v): a str is itself, anything else its repr
PyStr(v) == IF IsStr(v) THEN v.str ELSE PyRepr(v)

\* RESPONSE_SCHEMA, properties of one Justification item
ItemSchemaValid(item) ==
    /\ IsDict(item)
    /\ DictHas(item.dict, "ClauseID") /\ DictHas(item.dict, "Text")
    /\ IsStr(DictGet(item.dict, "ClauseID", PNone))
    /\ IsStr(DictGet(item.dict, "Text", PNone))

\* validate(instance, RESPONSE_SCHEMA) raises no ValidationError
SchemaValid(inst) ==
    /\ IsDict(inst)
    /\ DictHas(inst.dict, "Decision") /\ DictHas(inst.dict, "Amount")
    /\ DictHas(inst.dict, "Justification")
    /\ IsStr(DictGet(inst.dict, "Decision", PNone))
    /\ IsStr(DictGet(inst.dict, "Amount", PNone))
    /\ IsList(DictGet(inst.dict, "Justification", PNone))
    /\ \A i \in 1..Len(DictGet(inst.dict, "Justification", PNone).list) :
          ItemSchemaValid(DictGet(inst.dict, "Justification", PNone).list[i])

MakeAnswer(decision, amount, justification) ==
    PDict(<< <<"Decision", PStr(decision)>>, <<"Amount", PStr(amount)>>,
             <<"Justification", PList(justification)>> >>)

MakeClause(clause_id, t) ==
    PDict(<< <<"ClauseID", PStr(clause_id)>>, <<"Text", PStr(t)>> >>)

\* lines 232-237 keeping every mapping that has both keys, a null value included
KeepsItemWithNull(item) ==
    /\ IsDict(item)
    /\ DictHas(item.dict, "ClauseID")
    /\ DictHas(item.dict, "Text")

\* lines 232-237: the item is a dict and neither of its two fields is None
KeepsItem(item) ==
    /\ IsDict(item)
    /\ ~IsNone(DictGet(item.dict, "ClauseID", PNone))
    /\ ~IsNone(DictGet(item.dict, "Text", PNone))

\* lines 230-238
CleanItems(justification) ==
    LET kept == SelectSeq(justification, KeepsItem)
    IN  [i \in 1..Len(kept) |->
            MakeClause(PyStr(DictGet(kept[i].dict, "ClauseID", PNone)),
                       PyStr(DictGet(kept[i].dict, "Text", PNone)))]

\* lines 221-249
NormalizeResponse(data) ==
    IF ~IsDict(data) THEN PNone
    ELSE LET decision == PyStr(DictGet(data.dict, "Decision", PStr("Unknown")))
             amount == PyStr(DictGet(data.dict, "Amount", PStr("N/A")))
             given == DictGet(data.dict, "Justification", PList(<<>>))
             justification == IF IsList(given) THEN given.list ELSE <<>>
             candidate == MakeAnswer(decision, amount, CleanItems(justification))
         IN  IF SchemaValid(candidate) THEN candidate ELSE PNone

\* lines 269-273
Fallback == MakeAnswer("Unknown", "N/A", <<>>)

\* not v
Falsy(v) ==
    \/ IsNone(v)
    \/ IsList(v) /\ v.list = <<>>
    \/ IsDict(v) /\ v.dict = <<>>
    \/ IsStr(v) /\ v.str = ""
    \/ IsNum(v) /\ v.num = 0

\* web_app.py 308-310 listing the chunks last to first
ContextClausesReversed(ctx) ==
    [i \in 1..Len(ctx) |-> MakeClause(ctx[Len(ctx) + 1 - i].id, ctx[Len(ctx) + 1 - i].text)]

\* web_app.py 308-310, chatbot.py 327-329
ContextClauses(ctx) ==
    [i \in 1..Len(ctx) |-> MakeClause(ctx[i].id, ctx[i].text)]

\* web_app.py 307-310: answer after the back-fill
Backfilled(ans, ctx) ==
    IF Falsy(DictGet(ans.dict, "Justification", PNone))
      THEN PDict(DictSet(ans.dict, "Justification", PList(ContextClauses(ctx))))
      ELSE ans

(***************************************************************************)
(* A query, from the retrieved chunks to the final Answer                  *)
(***************************************************************************)
RECURSIVE Dumps(_)
RECURSIVE DumpsItems(_)
RECURSIVE DumpsMembers(_)

DumpsItems(items) ==
    IF items = <<>> THEN <<>>
    ELSE IF Len(items) = 1 THEN Dumps(items[1])
    ELSE Dumps(items[1]) \o <<P(","), Sp>> \o DumpsItems(Tail(items))

DumpsMembers(items) ==
    IF items = <<>> THEN <<>>
    ELSE LET one == <<S(items[1][1]), P(":"), Sp>> \o Dumps(items[1][2])
         IN  IF Len(items) = 1 THEN one
             ELSE one \o <<P(","), Sp>> \o DumpsMembers(Tail(items))

\* json.dumps(v)
Dumps(v) ==
    IF IsStr(v) THEN <<S(v.str)>>
    ELSE IF IsNum(v) THEN <<N(ToString(v.num))>>
    ELSE IF IsNone(v) THEN <<W("null")>>
    ELSE IF IsList(v) THEN <<P("[")>> \o DumpsItems(v.list) \o <<P("]")>>
    ELSE <<P("{")>> \o DumpsMembers(v.dict) \o <<P("}")>>

\* what a Justification list may hold
ClauseItems ==
    { PStr("x"),
      MakeClause("c1", "Covers inpatient surgery."),
      PDict(<< <<"ClauseID", PNum(12)>>, <<"Text", PStr("Waiting period applies.")>> >>),
      PDict(<< <<"ClauseID", PStr("c2")>> >>),
      PDict(<< <<"ClauseID", PNone>>, <<"Text", PStr("t")>> >>) }

DecisionValues == {PStr("Rejected"), PNum(0), PNone, PList(<<PStr("yes"), PNum(12)>>)}
AmountValues == {PStr("5000"), PNum(0), PNone, PDict(<< <<"inr", PNum(12)>> >>)}
JustificationValues ==
    {PStr("none"), PNone} \cup {PList(l) : l \in SeqsUpTo(ClauseItems, MaxJustification)}

Optional(k, values) == {<<>>} \cup {<< <<k, v>> >> : v \in values}

\* the mappings given to normalize_response
ModelObjects ==
    { PDict(d \o a \o j) : d \in Optional("Decision", DecisionValues),
                           a \in Optional("Amount", AmountValues),
                           j \in Optional("Justification", JustificationValues) }

\* the values given to normalize_response
DataValues ==
    ModelObjects \cup {PNone, PStr("Rejected"), PNum(12), PList(<<MakeClause("c1", "t")>>)}

TokenAlphabet ==
    { P("{"), P("}"), P("["), P("]"), P(":"), P(","),
      S("a"), N("12"), W("null"), W("Here"), Sp }

\* {"a": [[[[ ... }
DeepCompletion == <<P("{"), S("a"), P(":"), Sp, Run("[", DeepNesting), P("}")>>

Prefixes == {<<>>, <<W("Here"), Sp>>}
Suffixes == {<<>>, <<Sp, W("Thank")>>}

\* the completions of the language model
RawTexts ==
    SeqsUpTo(TokenAlphabet, MaxRawLen)
        \cup { pre \o body \o post :
                 pre \in Prefixes, post \in Suffixes,
                 body \in {Dumps(v) : v \in ModelObjects} \cup {DeepCompletion} }

Chunk(id, source, t) == [id |-> id, source |-> source, text |-> t]
chunk1 == Chunk("policy1__0", "policy1", "Covers inpatient surgery.")
chunk2 == Chunk("policy1__1", "policy1", "Excludes pre-existing conditions.")

\* the query of test_build_prompt_includes_clause_ids
TestQuery == "Is knee surgery covered?"

\* the four sentences build_prompt opens with
Instructions ==
    "You are an insurance claim assistant. "
        \o "Answer only using the provided clauses. "
        \o "Return a JSON object with keys: Decision, Amount, Justification. "
        \o "Justification must be a list of {ClauseID, Text}. "
        \o "Return only JSON, no extra text.\n\n"

\* f"ClauseID: {chunk['id']}\nText: {chunk['text']}"
ClauseText(chunk) == <<"ClauseID: ", chunk.id, "\nText: ", chunk.text>>

\* "\n\n".join(...)
RECURSIVE JoinClauses(_)
JoinClauses(context_chunks) ==
    IF context_chunks = <<>> THEN <<>>
    ELSE IF Len(context_chunks) = 1 THEN ClauseText(context_chunks[1])
    ELSE ClauseText(Head(context_chunks)) \o <<"\n\n">>
            \o JoinClauses(Tail(context_chunks))

\* build_prompt with the clauses joined last to first
BuildPromptLastFirst(query, context_chunks) ==
    LET n == Len(context_chunks)
    IN  <<Instructions, "Query: ", query, "\n\nRelevant Clauses:\n">>
            \o JoinClauses([i \in 1..n |-> context_chunks[n + 1 - i]])
            \o <<"\n">>

\* build_prompt: the string it returns, as the sequence of its pieces
BuildPrompt(query, context_chunks) ==
    <<Instructions, "Query: ", query, "\n\nRelevant Clauses:\n">>
        \o JoinClauses(context_chunks) \o <<"\n">>

\* what retrieve_chunks may return
Contexts == {<<>>, <<chunk1>>, <<chunk1, chunk2>>, <<chunk2, chunk1>>}

InitAnswer ==
    /\ ChunkIdle
    /\ SysIdle
    /\ context = <<>> /\ prompt = <<>> /\ raw = <<>> /\ normalized = PNone
    /\ answer = PNone /\ aerr = ""
    /\ \/ /\ acall = "query" /\ user_query = TestQuery
          /\ parsed = PNone /\ apc = "retrieve"
       \/ /\ acall = "normalize_response" /\ user_query = ""
          /\ parsed \in DataValues /\ apc = "normalize"

\* web_app.py 300-303: the chunks retrieved for the query, and the prompt
QueryRetrieve ==
    /\ apc = "retrieve"
    /\ context' \in Contexts
    /\ prompt' = BuildPrompt(user_query, context')
    /\ apc' = "llm"
    /\ UNCHANGED <<acall, user_query, raw, parsed, normalized, answer, aerr>>
    /\ UNCHANGED <<chunkVars, sysVars>>

\* chatbot.py 258-264: the model answers the prompt; raw is its text, stripped
RunLlmCall ==
    /\ apc = "llm"
    /\ \E completion \in RawTexts :
          raw' = SubSeq(completion, SkipWs(completion, 1),
                        IF \A i \in 1..Len(completion) : IsWs(completion[i])
                          THEN 0
                          ELSE CHOOSE k \in 1..Len(completion) :
                                 /\ ~IsWs(completion[k])
                                 /\ \A m \in (k + 1)..Len(completion) : IsWs(completion[m]))
    /\ apc' = "extract"
    /\ UNCHANGED <<acall, user_query, context, prompt, parsed, normalized,
                   answer, aerr>>
    /\ UNCHANGED <<chunkVars, sysVars>>

\* chatbot.py 265
RunLlmExtract ==
    /\ apc = "extract"
    /\ LET r == ExtractJson(raw)
       IN  IF HasRaised(r)
             THEN /\ aerr' = r.raised
                  /\ apc' = "raised"
                  /\ UNCHANGED parsed
             ELSE /\ parsed' = r.returned
                  /\ apc' = "normalize"
                  /\ UNCHANGED aerr
    /\ UNCHANGED <<acall, user_query, context, prompt, raw, normalized, answer>>
    /\ UNCHANGED <<chunkVars, sysVars>>

\* chatbot.py 266, and normalize_response called by itself
RunLlmNormalize ==
    /\ apc = "normalize"
    /\ normalized' = NormalizeResponse(parsed)
    /\ apc' = IF acall = "normalize_response" THEN "done" ELSE "return"
    /\ UNCHANGED <<acall, user_query, context, prompt, raw, parsed, answer,
                   aerr>>
    /\ UNCHANGED <<chunkVars, sysVars>>

\* chatbot.py 267-273
RunLlmReturn ==
    /\ apc = "return"
    /\ answer' = IF ~IsNone(normalized) THEN normalized ELSE Fallback
    /\ apc' = "backfill"
    /\ UNCHANGED <<acall, user_query, context, prompt, raw, parsed,
                   normalized, aerr>>
    /\ UNCHANGED <<chunkVars, sysVars>>

\* web_app.py 307-310
QueryBackfill ==
    /\ apc = "backfill"
    /\ answer' = Backfilled(answer, context)
    /\ apc' = "done"
    /\ UNCHANGED <<acall, user_query, context, prompt, raw, parsed,
                   normalized, aerr>>
    /\ UNCHANGED <<chunkVars, sysVars>>

NextAnswer ==
    \/ QueryRetrieve
    \/ RunLlmCall
    \/ RunLlmExtract
    \/ RunLlmNormalize
    \/ RunLlmReturn
    \/ QueryBackfill

SpecAnswer == InitAnswer /\ [][NextAnswer]_vars

(***************************************************************************)
(* build_prompt called on its own, as test_chatbot.py does                 *)
(***************************************************************************)
\* a chunk as the test passes it, without a source
testChunk == [id |-> "policy1__2", text |-> "Excludes pre-existing conditions."]

PromptQueries == {TestQuery, "ClauseID: policy1__0"}
PromptContexts == SeqsUpTo({chunk1, chunk2, testChunk}, MaxContext)

InitPrompt ==
    /\ ChunkIdle
    /\ SysIdle
    /\ acall = "build_prompt" /\ apc = "call"
    /\ user_query \in PromptQueries
    /\ context \in PromptContexts
    /\ prompt = <<>> /\ raw = <<>> /\ parsed = PNone /\ normalized = PNone
    /\ answer = PNone /\ aerr = ""

\* chatbot.py 195-206
BuildPromptCall ==
    /\ acall = "build_prompt" /\ apc = "call"
    /\ prompt' = BuildPrompt(user_query, context)
    /\ apc' = "done"
    /\ UNCHANGED <<acall, user_query, context, raw, parsed, normalized,
                   answer, aerr>>
    /\ UNCHANGED <<chunkVars, sysVars>>

NextPrompt == BuildPromptCall

SpecPrompt == InitPrompt /\ [][NextPrompt]_vars

(***************************************************************************)
(* Claims about run_llm, extract_json, normalize_response and the          *)
(* back-fill                                                               *)
(***************************************************************************)
\* run_llm has returned to query
RunLlmReturned == acall = "query" /\ apc \in {"backfill", "done"}

\* normalize_response has returned: parsed is what it was given, normalized
\* what it returned
NormalizeReturned ==
    \/ acall = "normalize_response" /\ apc = "done"
    \/ acall = "query" /\ apc \in {"return", "backfill", "done"}

\* extract_json has returned: raw is what it was given, parsed what it returned
ExtractReturned == acall = "query" /\ apc \in {"normalize", "return", "backfill", "done"}

JustificationOf(ans) == DictGet(ans.dict, "Justification", PNone).list

\* C7 as stated: no completion text makes the query fail; run_llm returns a
\* schema-valid Answer, and the fixed fallback whenever extraction or
\* normalization yields nothing.
C7_RunLlmNeverFails ==
    /\ apc # "raised"
    /\ (acall = "query" /\ apc = "backfill") =>
          /\ SchemaValid(answer)
          /\ (IsNone(parsed) \/ IsNone(normalized)) => answer = Fallback

\* C8: when the Answer run_llm returned has an empty Justification, the final
\* Answer lists one clause per retrieved chunk, in retrieval order, with the
\* chunk's id and text; a non-empty Justification is left as it is; so the
\* final Justification is empty only when no chunk was retrieved.
C8_JustificationBackfilled ==
    /\ [][(acall = "query" /\ apc = "backfill") =>
            IF JustificationOf(answer) = <<>>
              THEN /\ Len(JustificationOf(answer')) = Len(context)
                   /\ \A i \in 1..Len(context) :
                         JustificationOf(answer')[i] =
                            PDict(<< <<"ClauseID", PStr(context[i].id)>>,
                                     <<"Text", PStr(context[i].text)>> >>)
                   /\ \A k \in {"Decision", "Amount"} :
                         DictGet(answer'.dict, k, PNone) = DictGet(answer.dict, k, PNone)
              ELSE answer' = answer]_vars
    /\ []((acall = "query" /\ apc = "done" /\ JustificationOf(answer) = <<>>)
              => context = <<>>)

\* the model answered with well-formed JSON that cites nothing, and the two
\* retrieved chunks were filled in, in retrieval order
C8_Witness ==
    /\ acall = "query" /\ apc = "done"
    /\ context = <<chunk2, chunk1>>
    /\ ~IsNone(normalized) /\ JustificationOf(normalized) = <<>>
    /\ Len(JustificationOf(answer)) = 2
    /\ DictGet(JustificationOf(answer)[1].dict, "ClauseID", PNone) = PStr("policy1__1")

C9_HoldsBoth(item) ==
    IsDict(item) /\ DictHas(item.dict, "ClauseID") /\ DictHas(item.dict, "Text")

C9_HoldsBothNotNull(item) ==
    /\ C9_HoldsBoth(item)
    /\ \A k \in {"ClauseID", "Text"} : DictGet(item.dict, k, PNone) # PNone

\* what the claim says normalize_response returns for a mapping, the entries
\* kept being those that satisfy Keep
C9_Expected(data, Keep(_)) ==
    LET field(k, default) ==
            IF DictHas(data.dict, k) THEN PyStr(DictGet(data.dict, k, PNone)) ELSE default
        given == DictGet(data.dict, "Justification", PNone)
        entries == IF DictHas(data.dict, "Justification") /\ IsList(given)
                     THEN SelectSeq(given.list, Keep) ELSE <<>>
    IN  PDict(<< <<"Decision", PStr(field("Decision", "Unknown"))>>,
                 <<"Amount", PStr(field("Amount", "N/A"))>>,
                 <<"Justification",
                   PList([i \in 1..Len(entries) |->
                            PDict(<< <<"ClauseID", PStr(PyStr(DictGet(entries[i].dict, "ClauseID", PNone)))>>,
                                     <<"Text", PStr(PyStr(DictGet(entries[i].dict, "Text", PNone)))>> >>)])>> >>)

\* tests/test_chatbot.py 17-27
TestData ==
    PDict(<< <<"Decision", PStr("Rejected")>>, <<"Amount", PNum(0)>>,
             <<"Justification",
               PList(<< PDict(<< <<"ClauseID", PNum(12)>>,
                                 <<"Text", PStr("Waiting period applies.")>> >>) >>)>> >>)
TestNormalized ==
    PDict(<< <<"Decision", PStr("Rejected")>>, <<"Amount", PStr("0")>>,
             <<"Justification",
               PList(<< PDict(<< <<"ClauseID", PStr("12")>>,
                                 <<"Text", PStr("Waiting period applies.")>> >>) >>)>> >>)

\* C9 as stated: for a mapping, Decision and Amount are the input's as strings
\* ("Unknown", "N/A" when absent) and Justification is the input's entries that
\* are mappings holding both ClauseID and Text, in order, stringified ([] when
\* absent or not a list); for anything else the result is nothing.
C9_NormalizeKeepsEntriesWithBothKeys ==
    NormalizeReturned =>
        normalized = IF IsDict(parsed) THEN C9_Expected(parsed, C9_HoldsBoth) ELSE PNone

\* C9 amended: as stated, the entries kept being the mappings in which ClauseID
\* and Text are both present and neither is null.
C9_NormalizeKeepsEntriesWithBothValues ==
    NormalizeReturned =>
        /\ normalized = IF IsDict(parsed) THEN C9_Expected(parsed, C9_HoldsBothNotNull) ELSE PNone
        /\ parsed = TestData => normalized = TestNormalized

\* a mapping with a number for Amount, no Decision and two entries, the first
\* with a null ClauseID: the second alone is kept, its number made a string
C9_Witness ==
    /\ acall = "normalize_response" /\ apc = "done"
    /\ parsed = PDict(<< <<"Amount", PNum(0)>>,
                         <<"Justification",
                           PList(<< PDict(<< <<"ClauseID", PNone>>, <<"Text", PStr("t")>> >>),
                                    PDict(<< <<"ClauseID", PNum(12)>>,
                                             <<"Text", PStr("Waiting period applies.")>> >>) >>)>> >>)
    /\ normalized = PDict(<< <<"Decision", PStr("Unknown")>>, <<"Amount", PStr("0")>>,
                             <<"Justification",
                               PList(<< PDict(<< <<"ClauseID", PStr("12")>>,
                                                 <<"Text", PStr("Waiting period applies.")>> >>) >>)>> >>)

\* a completion that wraps one JSON object in prose, with the object
C10_Wrapped ==
    { <<pre \o Dumps(v) \o post, v>> :
         pre \in Prefixes \ {<<>>}, post \in Suffixes \ {<<>>}, v \in ModelObjects }

\* C10 as stated: extract_json never raises; it returns nothing when a brace is
\* missing, when the last "}" precedes the first "{" or when the text between
\* them does not parse, the parsed value otherwise; an object wrapped in prose
\* comes back as that object.
C10_ExtractJsonReturns ==
    /\ apc # "raised"
    /\ ExtractReturned =>
          LET opens == {i \in 1..Len(raw) : IsP(raw[i], "{")}
              closes == {i \in 1..Len(raw) : IsP(raw[i], "}")}
              first == CHOOSE i \in opens : \A j \in opens : i <= j
              last == CHOOSE i \in closes : \A j \in closes : i >= j
          IN  /\ (opens = {} \/ closes = {}) => parsed = PNone
              /\ (opens # {} /\ closes # {} /\ last < first) => parsed = PNone
              /\ (opens # {} /\ closes # {} /\ first < last) =>
                    LET r == JsonLoads(SubSeq(raw, first, last))
                    IN  parsed = IF r.ok THEN r.val ELSE PNone
              /\ \A w \in C10_Wrapped : raw = w[1] => parsed = w[2]

(***************************************************************************)
(* The documents, the embedding engine and the vector index                *)
(***************************************************************************)
Sources == {"policy1", "policy2"}

\* sorted(dir.glob(...)): the sources of a directory in name order
SortedSources(dir) ==
    SelectSeq(<<"policy1", "policy2">>, LAMBDA src : src \in dir)

\* what extract_text_from_pdf reads from data/<source>.pdf
PdfText(source) ==
    IF source = "policy1" THEN <<"a", "b", "c", "d">> ELSE <<"c", " ", "b">>

\* what cleaned_data/<source>.txt holds
CleanedText(source) ==
    IF source = "policy1" THEN <<"a", "b", "c">> ELSE <<"b">>

\* clean_text on a text of one line without page furniture
CleanText(raw_text) == Strip(raw_text)

RECURSIVE ChunkFrom(_, _, _, _, _)
ChunkFrom(t, st, size, ov, acc) ==
    IF ~(st < Len(t)) THEN acc
    ELSE LET end == WindowEnd(t, st, size)
             chunk == Strip(PySlice(t, st, end))
             acc2 == IF chunk # <<>> THEN Append(acc, chunk) ELSE acc
         IN  IF end >= Len(t) THEN acc2
             ELSE ChunkFrom(t, NextStart(end, ov), size, ov, acc2)

\* chunk_text as a function, for the sizes on which its loop ends
ChunkText(txt, size, ov) ==
    LET t == Strip(CollapseWs(txt))
    IN  IF t = <<>> THEN <<>> ELSE ChunkFrom(t, 0, size, ov, <<>>)

Document(source, t) == [source |-> source, text |-> t]

\* load_documents
LoadDocuments(use_cleaned, cleaned, data) ==
    LET fromCleaned ==
            [i \in 1..Len(SortedSources(cleaned)) |->
                Document(SortedSources(cleaned)[i],
                         CleanedText(SortedSources(cleaned)[i]))]
        fromPdf ==
            [i \in 1..Len(SortedSources(data)) |->
                Document(SortedSources(data)[i],
                         CleanText(PdfText(SortedSources(data)[i])))]
    IN  IF use_cleaned /\ fromCleaned # <<>> THEN fromCleaned ELSE fromPdf

\* lines 135-142 counting the chunks of a document from 1
DocChunksFromOne(doc, size, ov) ==
    LET parts == ChunkText(doc.text, size, ov)
    IN  [i \in 1..Len(parts) |->
            Chunk(doc.source \o "__" \o ToString(i), doc.source, parts[i])]

\* the chunk records of one document, ids counted from 0
DocChunks(doc, size, ov) ==
    LET parts == ChunkText(doc.text, size, ov)
    IN  [i \in 1..Len(parts) |->
            Chunk(doc.source \o "__" \o ToString(i - 1), doc.source, parts[i])]

RECURSIVE AllChunks(_, _, _)
AllChunks(documents, size, ov) ==
    IF documents = <<>> THEN <<>>
    ELSE DocChunks(Head(documents), size, ov)
            \o AllChunks(Tail(documents), size, ov)

\* The embedding engine: a text is embedded as the count of each letter in
\* it, and two embeddings are compared by the cosine of their angle, which
\* is what the inner product of normalised vectors is.
EmbedDims == <<"a", "b", "c", "d">>
Embed(t) ==
    [d \in 1..Len(EmbedDims) |->
        Cardinality({i \in 1..Len(t) : t[i] = EmbedDims[d]})]
RECURSIVE DotUpTo(_, _, _)
DotUpTo(u, v, d) == IF d = 0 THEN 0 ELSE u[d] * v[d] + DotUpTo(u, v, d - 1)
Dot(u, v) == DotUpTo(u, v, Len(EmbedDims))
\* cos(q, u) > cos(q, v), for vectors that are not zero
Closer(q, u, v) ==
    Dot(q, u) * Dot(q, u) * Dot(v, v) > Dot(q, v) * Dot(q, v) * Dot(u, u)

\* embedder.encode(texts)
Encode(texts) == [i \in 1..Len(texts) |-> Embed(texts[i])]

\* the objects held in memory and in the three files
Index(vectors) == [vectors |-> vectors]
Matrix(rows) == [rows |-> rows]
ChunkList(items) == [items |-> items]

\* a search that reports position 0 where the index has no further vector
SearchPadsZero(index, query_vec, top_k) ==
    LET v == index.vectors
        n == Len(v)
        Before(i, j) ==
            \/ Closer(query_vec, v[i], v[j])
            \/ (~Closer(query_vec, v[j], v[i]) /\ i < j)
    IN  [p \in 1..top_k |->
            IF p > n THEN 0
            ELSE (CHOOSE i \in 1..n :
                    Cardinality({j \in 1..n : Before(j, i)}) = p - 1) - 1]

\* index.search(query_vec, top_k): the ids of the top_k nearest vectors,
\* nearest first, equal scores in id order, -1 where the index has fewer
Search(index, query_vec, top_k) ==
    LET v == index.vectors
        n == Len(v)
        Before(i, j) ==
            \/ Closer(query_vec, v[i], v[j])
            \/ (~Closer(query_vec, v[j], v[i]) /\ i < j)
    IN  [p \in 1..top_k |->
            IF p > n THEN -1
            ELSE (CHOOSE i \in 1..n :
                    Cardinality({j \in 1..n : Before(j, i)}) = p - 1) - 1]

\* retrieve_chunks without lines 189-190: a position of -1 is looked up as
\* Python does, from the end of the list
RetrieveChunksNoSkip(query, index, chunk_list, top_k) ==
    LET indices == Search(index, Embed(query), top_k)
        n == Len(chunk_list.items)
    IN  IF \E p \in 1..Len(indices) : indices[p] >= n \/ indices[p] < -n
        THEN Raises("IndexError")
        ELSE Returns([p \in 1..Len(indices) |->
                        chunk_list.items[IF indices[p] < 0 THEN n + indices[p] + 1
                                         ELSE indices[p] + 1]])

\* retrieve_chunks
RetrieveChunks(query, index, chunk_list, top_k) ==
    LET indices == Search(index, Embed(query), top_k)
        used == SelectSeq(indices, LAMBDA idx : ~(idx < 0))
    IN  IF \E p \in 1..Len(used) : used[p] >= Len(chunk_list.items)
        THEN Raises("IndexError")
        ELSE Returns([p \in 1..Len(used) |-> chunk_list.items[used[p] + 1]])

\* build_index without lines 130-131: no documents give an empty index
BuildIndexOfNothing(use_cleaned, size, ov, cleaned, data) ==
    LET documents == LoadDocuments(use_cleaned, cleaned, data)
        built == AllChunks(documents, size, ov)
        embeddings == Encode([i \in 1..Len(built) |-> built[i].text])
    IN  Returns([index |-> Index(embeddings),
                 chunks |-> ChunkList(built),
                 embeddings |-> Matrix(embeddings)])

\* build_index adding the vectors to the index last to first
BuildIndexLastFirst(use_cleaned, size, ov, cleaned, data) ==
    LET documents == LoadDocuments(use_cleaned, cleaned, data)
        built == AllChunks(documents, size, ov)
        embeddings == Encode([i \in 1..Len(built) |-> built[i].text])
        n == Len(embeddings)
    IN  IF documents = <<>> THEN Raises("FileNotFoundError")
        ELSE Returns([index |-> Index([i \in 1..n |-> embeddings[n + 1 - i]]),
                      chunks |-> ChunkList(built),
                      embeddings |-> Matrix(embeddings)])

\* build_index up to its writes: the three objects it is about to persist
BuildIndex(use_cleaned, size, ov, cleaned, data) ==
    LET documents == LoadDocuments(use_cleaned, cleaned, data)
        built == AllChunks(documents, size, ov)
        embeddings == Encode([i \in 1..Len(built) |-> built[i].text])
    IN  IF documents = <<>> THEN Raises("FileNotFoundError")
        ELSE Returns([index |-> Index(embeddings),
                      chunks |-> ChunkList(built),
                      embeddings |-> Matrix(embeddings)])

(***************************************************************************)
(* The web service: web_app.py                                             *)
(*                                                                         *)
(* The development server serves each request on a thread of its own.  A   *)
(* step of a thread is one read or write of State, or one operation on one *)
(* file, together with the computation on locals around it.  The           *)
(* assignment of State["status"] in ensure_index is taken with the         *)
(* assignment of State["chunks"] before it, and a file is written in one   *)
(* step.  A local is cleared after its last use.                           *)
(***************************************************************************)
\* the use_cleaned, chunk_size and overlap a request carries
IndexParams == {<<FALSE, 2, 1>>, <<TRUE, 2, 0>>}
\* the query, top_k and model_path (does it name a file?) of a query
QueryParams == {<<<<"c", "d">>, 1, TRUE>>, <<<<"a">>, MaxTopK, FALSE>>}
\* the directories the service is started on
Directories == {<<{}, {}>>, <<{"policy1"}, {"policy1"}>>}

InitSys ==
    /\ \E d \in Directories : data_dir = d[1] /\ cleaned_dir = d[2]
    /\ INDEX_PATH = Absent /\ EMBEDDINGS_PATH = Absent /\ CHUNKS_PATH = Absent
    /\ State = InitialState
    /\ th = [t \in Threads |-> IdleThread]
    /\ nreq = 0 /\ ncrash = 0
    /\ ChunkIdle /\ AnswerIdle

Step(t, r) == th' = [th EXCEPT ![t] = r]
Idle(t) == th[t].pc = "idle" /\ nreq < MaxRequests
Running == <<chunkVars, answerVars, nreq, ncrash>>

\* ensure_index line 138, get_embedder line 75: is a handle cached?
AfterGetEmbedder(rebuild) ==
    IF State.embedder = "none" THEN "load_embedder"
    ELSE IF rebuild THEN "load_documents" ELSE "check_loaded"

\* POST /build: build(), lines 223-245, up to line 75 of get_embedder
StartBuild(t) ==
    /\ Idle(t)
    /\ \E ip \in IndexParams :
          Step(t, [IdleThread EXCEPT !.pc = AfterGetEmbedder(TRUE),
                      !.kind = "build",
                      !.rebuild = TRUE, !.use_cleaned = ip[1],
                      !.cs = ip[2], !.ov = ip[3]])
    /\ nreq' = nreq + 1
    /\ UNCHANGED <<chunkVars, answerVars, diskVars, State, ncrash>>

\* POST /query: query(), lines 248-295, for a query that is not empty, up
\* to line 75 of get_embedder
StartQuery(t) ==
    /\ Idle(t)
    /\ \E ip \in IndexParams, qp \in QueryParams :
          Step(t, [IdleThread EXCEPT !.pc = AfterGetEmbedder(FALSE),
                      !.kind = "query",
                      !.rebuild = FALSE, !.use_cleaned = ip[1],
                      !.cs = ip[2], !.ov = ip[3], !.q = qp[1],
                      !.top_k = qp[2], !.model_exists = qp[3]])
    /\ nreq' = nreq + 1
    /\ UNCHANGED <<chunkVars, answerVars, diskVars, State, ncrash>>

\* POST /upload: upload(), lines 185-217, for a file named *.pdf
Upload(t) ==
    /\ Idle(t)
    /\ \E f \in Sources :
          /\ data_dir' = data_dir \cup {f}
          /\ Step(t, [IdleThread EXCEPT !.pc = "set_status",
                         !.kind = "upload", !.file = f])
    /\ nreq' = nreq + 1
    /\ UNCHANGED <<chunkVars, answerVars, cleaned_dir, INDEX_PATH,
                   EMBEDDINGS_PATH, CHUNKS_PATH, State, ncrash>>

\* get_embedder line 77: construct the model and cache it
LoadEmbedder(t) ==
    /\ th[t].pc = "load_embedder"
    /\ State' = [State EXCEPT !.embedder = t]
    /\ Step(t, [th[t] EXCEPT !.pc =
                  IF th[t].rebuild THEN "load_documents" ELSE "check_loaded"])
    /\ UNCHANGED <<Running, diskVars>>

\* line 148 finding something to load whatever the state holds
NeedsLoadAlways(state) == TRUE

\* ensure_index line 148: is the index or the chunk list still to be loaded?
NeedsLoad(state) == state.index = PNone \/ state.chunks = PNone

\* ensure_index line 148; via records the branch ensure_index takes
CheckLoaded(t) ==
    /\ th[t].pc = "check_loaded"
    /\ Step(t, IF NeedsLoad(State)
               THEN [th[t] EXCEPT !.pc = "load_index"]
               ELSE [th[t] EXCEPT !.pc = "get_llm", !.via = "cached",
                                  !.use_cleaned = FALSE, !.cs = 0, !.ov = 0])
    /\ UNCHANGED <<Running, diskVars, State>>

\* line 166 with "and" for "or"
NotFoundBoth(index_file, chunks_file) ==
    IsAbsent(index_file) /\ IsAbsent(chunks_file)

\* load_index line 166
NotFound(index_file, chunks_file) ==
    IsAbsent(index_file) \/ IsAbsent(chunks_file)

\* load_index raises FileNotFoundError in thread t: line 156 of
\* ensure_index catches it and builds instead; a caller that calls
\* load_index itself gets the error
RaiseNotFound(t) ==
    IF th[t].kind = "load"
    THEN [th[t] EXCEPT !.pc = "respond", !.err = "FileNotFoundError",
                       !.index = PNone, !.embeddings = PNone]
    ELSE [th[t] EXCEPT !.pc = "load_documents", !.via = "built",
                       !.index = PNone, !.embeddings = PNone]

\* load_index lines 166-167
LoadIndexExists(t) ==
    /\ th[t].pc = "load_index"
    /\ Step(t, IF NotFound(INDEX_PATH, CHUNKS_PATH)
               THEN RaiseNotFound(t)
               ELSE [th[t] EXCEPT !.pc = "read_index", !.via = "loaded"])
    /\ UNCHANGED <<Running, diskVars, State>>

\* load_index line 168
ReadIndex(t) ==
    /\ th[t].pc = "read_index"
    /\ Step(t, IF IsAbsent(INDEX_PATH)
               THEN [th[t] EXCEPT !.pc = "respond", !.err = "RuntimeError"]
               ELSE [th[t] EXCEPT !.pc = "read_embeddings",
                                  !.index = INDEX_PATH])
    /\ UNCHANGED <<Running, diskVars, State>>

\* load_index lines 169-171
ReadEmbeddings(t) ==
    /\ th[t].pc = "read_embeddings"
    /\ Step(t, [th[t] EXCEPT !.pc = "read_chunks",
                  !.embeddings = IF IsAbsent(EMBEDDINGS_PATH) THEN PNone
                                 ELSE EMBEDDINGS_PATH])
    /\ UNCHANGED <<Running, diskVars, State>>

\* load_index lines 172-174; open() of a missing file raises
\* FileNotFoundError as well; the triple goes back to the caller
ReadChunks(t) ==
    /\ th[t].pc = "read_chunks"
    /\ Step(t, IF IsAbsent(CHUNKS_PATH)
               THEN RaiseNotFound(t)
               ELSE [th[t] EXCEPT !.pc = IF th[t].kind = "load" THEN "respond"
                                         ELSE "set_index",
                                  !.chunks = CHUNKS_PATH,
                                  !.use_cleaned = FALSE, !.cs = 0, !.ov = 0])
    /\ UNCHANGED <<Running, diskVars, State>>

\* build_index lines 129-154: read the documents, chunk and embed them
BuildObjects(t) ==
    /\ th[t].pc = "load_documents"
    /\ LET r == BuildIndex(th[t].use_cleaned, th[t].cs, th[t].ov,
                           cleaned_dir, data_dir)
       IN  Step(t, IF HasRaised(r)
                   THEN [th[t] EXCEPT !.pc = "respond", !.err = r.raised]
                   ELSE [th[t] EXCEPT !.pc = "write_index",
                            !.via = IF th[t].rebuild THEN "rebuilt"
                                    ELSE "built",
                            !.use_cleaned = FALSE, !.cs = 0, !.ov = 0,
                            !.index = r.returned.index,
                            !.chunks = r.returned.chunks,
                            !.embeddings = r.returned.embeddings])
    /\ UNCHANGED <<Running, diskVars, State>>

\* build_index lines 156-157
WriteIndex(t) ==
    /\ th[t].pc = "write_index"
    /\ INDEX_PATH' = th[t].index
    /\ Step(t, [th[t] EXCEPT !.pc = "save_embeddings"])
    /\ UNCHANGED <<Running, data_dir, cleaned_dir, EMBEDDINGS_PATH,
                   CHUNKS_PATH, State>>

\* build_index line 158
SaveEmbeddings(t) ==
    /\ th[t].pc = "save_embeddings"
    /\ EMBEDDINGS_PATH' = th[t].embeddings
    /\ Step(t, [th[t] EXCEPT !.pc = "dump_chunks"])
    /\ UNCHANGED <<Running, data_dir, cleaned_dir, INDEX_PATH, CHUNKS_PATH,
                   State>>

\* build_index lines 159-162
DumpChunks(t) ==
    /\ th[t].pc = "dump_chunks"
    /\ CHUNKS_PATH' = th[t].chunks
    /\ Step(t, [th[t] EXCEPT !.pc = "set_index"])
    /\ UNCHANGED <<Running, data_dir, cleaned_dir, INDEX_PATH,
                   EMBEDDINGS_PATH, State>>

\* ensure_index lines 142, 152, 159
SetIndex(t) ==
    /\ th[t].pc = "set_index"
    /\ State' = [State EXCEPT !.index = th[t].index]
    /\ Step(t, [th[t] EXCEPT !.pc = "set_chunks"])
    /\ UNCHANGED <<Running, diskVars>>

\* ensure_index lines 143-146, 153-155, 160-162, and the return to the
\* handler: build() answers, query() goes on at line 298
SetChunks(t) ==
    /\ th[t].pc = "set_chunks"
    /\ State' = [State EXCEPT !.chunks = th[t].chunks,
                    !.status = <<th[t].via, Len(th[t].chunks.items)>>]
    /\ Step(t, [th[t] EXCEPT !.pc =
                  IF th[t].kind = "build" THEN "respond" ELSE "get_llm",
                  !.index = PNone, !.chunks = PNone, !.embeddings = PNone])
    /\ UNCHANGED <<Running, diskVars>>

\* get_llm with ensure_model_exists called before the test of line 101
GetLlmChecksModel(t) ==
    /\ th[t].pc = "get_llm"
    /\ Step(t, IF ~th[t].model_exists
               THEN [th[t] EXCEPT !.pc = "respond",
                                  !.err = "FileNotFoundError"]
               ELSE IF State.llm = "none"
               THEN [th[t] EXCEPT !.pc = "load_llm"]
               ELSE [th[t] EXCEPT !.pc = "read_index_arg"])
    /\ UNCHANGED <<Running, diskVars, State>>

\* query lines 298-299, get_llm line 101: is a handle cached?
GetLlm(t) ==
    /\ th[t].pc = "get_llm"
    /\ Step(t, IF State.llm = "none"
               THEN [th[t] EXCEPT !.pc = "load_llm"]
               ELSE [th[t] EXCEPT !.pc = "read_index_arg"])
    /\ UNCHANGED <<Running, diskVars, State>>

\* get_llm lines 103-104: ensure_model_exists raises FileNotFoundError for
\* a model_path that names no file
LoadLlm(t) ==
    /\ th[t].pc = "load_llm"
    /\ IF th[t].model_exists
       THEN /\ State' = [State EXCEPT !.llm = t]
            /\ Step(t, [th[t] EXCEPT !.pc = "read_index_arg"])
       ELSE /\ State' = State
            /\ Step(t, [th[t] EXCEPT !.pc = "respond",
                                     !.err = "FileNotFoundError"])
    /\ UNCHANGED <<Running, diskVars>>

\* query line 300: the argument State["index"]
ReadStateIndex(t) ==
    /\ th[t].pc = "read_index_arg"
    /\ Step(t, [th[t] EXCEPT !.pc = "read_chunks_arg", !.index = State.index,
                             !.model_exists = TRUE])
    /\ UNCHANGED <<Running, diskVars, State>>

\* query lines 300-318: the argument State["chunks"], retrieve_chunks on
\* the two arguments, then the prompt, the model and the answer, which
\* change nothing outside the request
Retrieve(t) ==
    /\ th[t].pc = "read_chunks_arg"
    /\ LET r == RetrieveChunks(th[t].q, th[t].index, State.chunks,
                               th[t].top_k)
       IN  Step(t, IF HasRaised(r)
                   THEN [th[t] EXCEPT !.pc = "respond", !.err = r.raised,
                                      !.chunks = State.chunks]
                   ELSE [th[t] EXCEPT !.pc = "respond",
                                      !.context = r.returned,
                                      !.chunks = State.chunks])
    /\ UNCHANGED <<Running, diskVars, State>>

\* upload dropping the loaded index as it sets the status
SetUploadStatusDropsIndex(t) ==
    /\ th[t].pc = "set_status"
    /\ State' = [State EXCEPT !.status = <<"uploaded", th[t].file>>,
                              !.index = PNone, !.chunks = PNone]
    /\ Step(t, [th[t] EXCEPT !.pc = "respond"])
    /\ UNCHANGED <<Running, diskVars>>

\* upload lines 219-220
SetUploadStatus(t) ==
    /\ th[t].pc = "set_status"
    /\ State' = [State EXCEPT !.status = <<"uploaded", th[t].file>>]
    /\ Step(t, [th[t] EXCEPT !.pc = "respond"])
    /\ UNCHANGED <<Running, diskVars>>

\* the response is sent, or the exception becomes an error response
Respond(t) ==
    /\ th[t].pc = "respond"
    /\ Step(t, IdleThread)
    /\ UNCHANGED <<Running, diskVars, State>>

\* the process is killed and started again: the files stay, the memory and
\* the requests in progress are lost
Crash ==
    /\ ncrash < MaxCrashes
    /\ \E t \in Threads : th[t].pc # "idle"
    /\ ncrash' = ncrash + 1
    /\ State' = InitialState
    /\ th' = [t \in Threads |-> IdleThread]
    /\ UNCHANGED <<chunkVars, answerVars, diskVars, nreq>>

\* a step of the request thread t serves, or the start of one
Serve(t) ==
    \/ StartBuild(t) \/ StartQuery(t) \/ Upload(t)
    \/ LoadEmbedder(t) \/ CheckLoaded(t)
    \/ LoadIndexExists(t) \/ ReadIndex(t) \/ ReadEmbeddings(t)
    \/ ReadChunks(t) \/ BuildObjects(t) \/ WriteIndex(t)
    \/ SaveEmbeddings(t) \/ DumpChunks(t) \/ SetIndex(t)
    \/ SetChunks(t) \/ GetLlm(t) \/ LoadLlm(t) \/ ReadStateIndex(t)
    \/ Retrieve(t) \/ SetUploadStatus(t) \/ Respond(t)

Next ==
    \/ \E t \in Threads : Serve(t)
    \/ Crash

Spec == InitSys /\ [][Next]_vars

(***************************************************************************)
(* The service serving one request at a time, every request to its end,    *)
(* and stopped only between requests                                       *)
(***************************************************************************)
\* the process is stopped while it serves nothing and started again
Restart ==
    /\ ncrash < MaxCrashes
    /\ \A t \in Threads : th[t].pc = "idle"
    /\ State # InitialState
    /\ ncrash' = ncrash + 1
    /\ State' = InitialState
    /\ UNCHANGED <<chunkVars, answerVars, diskVars, th, nreq>>

NextSeq ==
    \/ Serve("t1")
    \/ Restart

SpecSeq == InitSys /\ [][NextSeq]_vars

(***************************************************************************)
(* load_index called on its own, as test_integration.py does, on an index  *)
(* directory in which each of the three files is missing or is the file    *)
(* some build wrote                                                        *)
(***************************************************************************)
\* what the builds of the service persist
Builds ==
    { BuildIndex(ip[1], ip[2], ip[3], {"policy1"}, data).returned :
        ip \in IndexParams, data \in {{"policy1"}, {"policy1", "policy2"}} }

InitLoad ==
    /\ data_dir = {} /\ cleaned_dir = {}
    /\ INDEX_PATH \in {Absent} \cup {b.index : b \in Builds}
    /\ EMBEDDINGS_PATH \in {Absent} \cup {b.embeddings : b \in Builds}
    /\ CHUNKS_PATH \in {Absent} \cup {b.chunks : b \in Builds}
    /\ State = InitialState
    /\ th = [t \in Threads |->
                IF t = "t1"
                THEN [IdleThread EXCEPT !.pc = "load_index", !.kind = "load"]
                ELSE IdleThread]
    /\ nreq = 0 /\ ncrash = 0
    /\ ChunkIdle /\ AnswerIdle

NextLoad ==
    \E t \in Threads :
        \/ LoadIndexExists(t) \/ ReadIndex(t) \/ ReadEmbeddings(t)
        \/ ReadChunks(t)

SpecLoad == InitLoad /\ [][NextLoad]_vars

(***************************************************************************)
(* build_index entered with no artifact in the index directory, over any   *)
(* documents and any sizes on which chunk_text ends, by one thread or by   *)
(* two threads side by side                                                *)
(***************************************************************************)
BuildParams ==
    { p \in BOOLEAN \X (1..MaxChunkSize) \X (0..MaxOverlap) : p[3] < p[2] }

InitBuild ==
    /\ data_dir \in SUBSET Sources /\ cleaned_dir \in SUBSET Sources
    /\ INDEX_PATH = Absent /\ EMBEDDINGS_PATH = Absent /\ CHUNKS_PATH = Absent
    /\ State = InitialState
    /\ \E p \in BuildParams, q \in IndexParams, both \in BOOLEAN :
          th = [t \in Threads |->
                  IF t = "t1"
                  THEN [IdleThread EXCEPT !.pc = "load_documents",
                           !.kind = "build_index", !.use_cleaned = p[1],
                           !.cs = p[2], !.ov = p[3]]
                  ELSE IF both
                  THEN [IdleThread EXCEPT !.pc = "load_documents",
                           !.kind = "build_index", !.use_cleaned = q[1],
                           !.cs = q[2], !.ov = q[3]]
                  ELSE IdleThread]
    /\ nreq = 0 /\ ncrash = 0
    /\ ChunkIdle /\ AnswerIdle

NextBuild ==
    \E t \in Threads :
        \/ BuildObjects(t) \/ WriteIndex(t) \/ SaveEmbeddings(t)
        \/ DumpChunks(t)

SpecBuild == InitBuild /\ [][NextBuild]_vars

(***************************************************************************)
(* Claims about the persisted index and the shared state                   *)
(***************************************************************************)
ChunkTexts(chunk_list) ==
    [i \in 1..Len(chunk_list.items) |-> chunk_list.items[i].text]

\* the vectors of the index are the embeddings of the chunks, in order: the
\* two were made by the same build, or by builds that made the same
SameBuild(index, chunk_list) == index.vectors = Encode(ChunkTexts(chunk_list))

SizesAgree(index, chunk_list, embeddings) ==
    /\ Len(index.vectors) = Len(chunk_list.items)
    /\ embeddings # PNone => Len(embeddings.rows) = Len(chunk_list.items)

\* load_index has returned to ensure_index in thread t
LoadReturned(t) == th[t].pc = "set_index" /\ th[t].via = "loaded"

\* C4: load_index never returns an index, a chunk list and an embedding
\* matrix whose sizes disagree (it is to fail with "corrupt index" on such
\* files instead).
C4_LoadRejectsMismatch ==
    \A t \in Threads :
        LoadReturned(t) =>
            SizesAgree(th[t].index, th[t].chunks, th[t].embeddings)

\* no build_index is between its first write and its last
NoWriteInProgress ==
    \A t \in Threads : th[t].pc \notin {"save_embeddings", "dump_chunks"}

\* C5: whenever the index directory is at rest, after a crash too, a search
\* structure and a chunk list that load_index would accept come from the
\* same build, and so does the embedding matrix if there is one.
C5_PersistAllOrNothing ==
    (NoWriteInProgress /\ ~IsAbsent(INDEX_PATH) /\ ~IsAbsent(CHUNKS_PATH)) =>
        /\ SameBuild(INDEX_PATH, CHUNKS_PATH)
        /\ ~IsAbsent(EMBEDDINGS_PATH) =>
              EMBEDDINGS_PATH.rows = INDEX_PATH.vectors

\* retrieve_chunks has been called in thread t, on th[t].index and
\* th[t].chunks
Retrieved(t) ==
    th[t].kind = "query" /\ th[t].pc = "respond" /\ th[t].chunks # PNone

\* C6: the index and the chunk list a query retrieves from belong to the
\* same build, whatever rebuilds run at the same time; stated for the
\* queries that find an index loaded and only read the shared state.
C6_ReaderSeesOneBuild ==
    \A t \in Threads :
        (Retrieved(t) /\ th[t].via = "cached") =>
            SameBuild(th[t].index, th[t].chunks)

(***************************************************************************)
(* Claims about retrieval                                                  *)
(***************************************************************************)
\* the neighbour positions the search reports to the query of thread t
Neighbours(t) == Search(th[t].index, Embed(th[t].q), th[t].top_k)
NotNegative(indices) == SelectSeq(indices, LAMBDA idx : idx >= 0)

\* C11: retrieve_chunks returns at most top_k chunks, each the element of
\* the chunk list at a position the search reported, in the order the
\* search reported them, which is by descending similarity; a position of
\* -1 is dropped, and the only error is a position beyond the chunk list.
C11_RetrieveFollowsSearch ==
    \A t \in Threads :
        Retrieved(t) =>
            LET items == th[t].chunks.items
                v == th[t].index.vectors
                ctx == th[t].context
                q == Embed(th[t].q)
                found == NotNegative(Neighbours(t))
            IN  IF \E p \in 1..Len(found) : found[p] >= Len(items)
                THEN th[t].err = "IndexError" /\ ctx = <<>>
                ELSE /\ th[t].err = ""
                     /\ Len(ctx) <= th[t].top_k
                     /\ Len(ctx) = Len(found)
                     /\ \A p \in 1..Len(ctx) : ctx[p] = items[found[p] + 1]
                     /\ \A p \in 1..(Len(ctx) - 1) :
                           ~Closer(q, v[found[p + 1] + 1], v[found[p] + 1])

\* a retrieval that returned two chunks and dropped a position of -1
C11_Witness ==
    \E t \in Threads :
        /\ Retrieved(t) /\ th[t].err = ""
        /\ Len(th[t].context) >= 2
        /\ \E p \in 1..Len(Neighbours(t)) : Neighbours(t)[p] < 0

\* thread t has retrieved with a top_k of at least the corpus size from an
\* index and a chunk list that are aligned
RetrievedAll(t) ==
    /\ Retrieved(t)
    /\ SameBuild(th[t].index, th[t].chunks)
    /\ th[t].top_k >= Len(th[t].chunks.items)

\* C12: with top_k at least the corpus size and the index aligned with the
\* chunk list, retrieve_chunks raises nothing and returns every chunk of
\* the corpus exactly once.
C12_LargeTopKReturnsAll ==
    \A t \in Threads :
        RetrievedAll(t) =>
            LET items == th[t].chunks.items
                ctx == th[t].context
            IN  /\ th[t].err = ""
                /\ Len(ctx) = Len(items)
                /\ \A i \in 1..Len(items) :
                      Cardinality({p \in 1..Len(ctx) : ctx[p] = items[i]}) = 1

\* a corpus of two chunks queried with a larger top_k
C12_Witness ==
    \E t \in Threads :
        /\ RetrievedAll(t)
        /\ Len(th[t].chunks.items) = 2
        /\ th[t].top_k > 2
        /\ Len(th[t].context) = 2

(***************************************************************************)
(* Claims about load_index and about a build without documents             *)
(***************************************************************************)
\* the call of load_index by thread t is over
LoadIndexOver(t) == th[t].kind = "load" /\ th[t].pc = "respond"

\* C13: load_index raises FileNotFoundError exactly when faiss.index or
\* chunks.pkl is missing; with both there it returns what the files hold,
\* and None for the embeddings when embeddings.npy is missing.
C13_NotFoundIffIndexOrChunksAbsent ==
    \A t \in Threads :
        LoadIndexOver(t) =>
            IF IsAbsent(INDEX_PATH) \/ IsAbsent(CHUNKS_PATH)
            THEN th[t].err = "FileNotFoundError"
            ELSE /\ th[t].err = ""
                 /\ th[t].index = INDEX_PATH
                 /\ th[t].chunks = CHUNKS_PATH
                 /\ th[t].embeddings =
                        IF IsAbsent(EMBEDDINGS_PATH) THEN PNone
                        ELSE EMBEDDINGS_PATH

\* a load that returned an index and chunks with no embeddings
C13_Witness ==
    \E t \in Threads :
        /\ LoadIndexOver(t) /\ th[t].err = ""
        /\ IsAbsent(EMBEDDINGS_PATH)
        /\ th[t].embeddings = PNone /\ th[t].index # PNone
        /\ th[t].chunks # PNone

artifacts == <<INDEX_PATH, EMBEDDINGS_PATH, CHUNKS_PATH>>

\* thread t takes a step of its request
Steps(t) == th'[t] # th[t] /\ ncrash' = ncrash

\* thread t is about to read the documents and there is none to read
NoDocuments(t) ==
    /\ th[t].pc = "load_documents"
    /\ LoadDocuments(th[t].use_cleaned, cleaned_dir, data_dir) = <<>>

\* C14: a build that finds no document ends its request with
\* FileNotFoundError, on the rebuild path and on the path that builds
\* because nothing could be loaded; that step and the steps of the request
\* before it write no artifact and leave State["index"] and
\* State["chunks"] as they are.
C14_BuildWithoutDocumentsFails ==
    [][\A t \in Threads :
          /\ (Steps(t) /\ NoDocuments(t)) =>
                /\ th'[t].pc = "respond"
                /\ th'[t].err = "FileNotFoundError"
                /\ th[t].index = PNone /\ th[t].chunks = PNone
                /\ State' = State
                /\ diskVars' = diskVars
          /\ (Steps(t) /\ th[t].pc \in {"idle", "load_embedder",
                                        "check_loaded", "load_index"}) =>
                /\ State'.index = State.index
                /\ State'.chunks = State.chunks
                /\ artifacts' = artifacts]_vars

\* a query built because there was nothing to load, found no document and
\* answers with the error; no artifact and no index in memory
C14_Witness ==
    \E t \in Threads :
        /\ th[t].kind = "query" /\ th[t].pc = "respond"
        /\ th[t].via = "built" /\ th[t].err = "FileNotFoundError"
        /\ data_dir = {}
        /\ State.index = PNone /\ State.chunks = PNone
        /\ IsAbsent(INDEX_PATH) /\ IsAbsent(EMBEDDINGS_PATH)
        /\ IsAbsent(CHUNKS_PATH)

(***************************************************************************)
(* Claims about build_prompt                                               *)
(***************************************************************************)
\* the pieces "ClauseID: <id>" "Text: <text>" of chunk stand at position k
ClauseAt(pieces, k, chunk) ==
    /\ k + 3 <= Len(pieces)
    /\ pieces[k] = "ClauseID: " /\ pieces[k + 1] = chunk.id
    /\ pieces[k + 2] = "\nText: " /\ pieces[k + 3] = chunk.text

\* from position k on, the pieces hold the clauses of the chunks, one
\* after the other
RECURSIVE ClausesInOrder(_, _, _)
ClausesInOrder(pieces, k, context_chunks) ==
    \/ context_chunks = <<>>
    \/ /\ context_chunks # <<>>
       /\ \E j \in k..Len(pieces) :
             /\ ClauseAt(pieces, j, Head(context_chunks))
             /\ ClausesInOrder(pieces, j + 4, Tail(context_chunks))

BuildPromptReturned == acall = "build_prompt" /\ apc = "done"

\* C15: the string build_prompt returns holds the query and, for every
\* chunk in the order given, "ClauseID: <id>" and "Text: <text>", and
\* nothing else that depends on anything; the call changes nothing of the
\* pipeline.
C15_PromptHoldsQueryAndClauses ==
    BuildPromptReturned =>
        /\ \E k \in 1..(Len(prompt) - 1) :
              prompt[k] = "Query: " /\ prompt[k + 1] = user_query
        /\ ClausesInOrder(prompt, 1, context)
        /\ Len(prompt) = 5 + 4 * Len(context) + Max(0, Len(context) - 1)
        /\ SysIdle /\ ChunkIdle
        /\ raw = <<>> /\ parsed = PNone /\ normalized = PNone
        /\ answer = PNone /\ aerr = ""

\* a prompt for three chunks, one of them given twice
C15_Witness ==
    /\ BuildPromptReturned
    /\ context = <<chunk2, testChunk, chunk2>>
    /\ user_query = TestQuery

(***************************************************************************)
(* Claims about ensure_index                                               *)
(***************************************************************************)
\* thread t serves the only request in progress
Alone(t) == \A u \in Threads \ {t} : th[u].pc = "idle"

\* C16: a request that asks for a rebuild writes the first artifact of its
\* build only when the artifacts that existed have all been deleted;
\* stated for a rebuild that no other request runs beside.
C16_RebuildDeletesFirst ==
    [][\A t \in Threads :
          (Steps(t) /\ Alone(t) /\ th[t].rebuild
                /\ th[t].pc = "write_index") =>
              /\ IsAbsent(INDEX_PATH)
              /\ IsAbsent(EMBEDDINGS_PATH)
              /\ IsAbsent(CHUNKS_PATH)]_vars

\* row i of the matrix and vector i of the index are the embedding of
\* chunk i, for every i, and there is nothing else in them
Aligned(index, chunk_list, embeddings) ==
    /\ Len(chunk_list.items) = Len(embeddings.rows)
    /\ Len(embeddings.rows) = Len(index.vectors)
    /\ \A i \in 1..Len(chunk_list.items) :
          /\ embeddings.rows[i] = Embed(chunk_list.items[i].text)
          /\ index.vectors[i] = Embed(chunk_list.items[i].text)

\* build_index or load_index has returned its triple in thread t
TripleReturned(t) == th[t].pc = "set_index"

\* C17: with every build, rebuild and load running to its end, the triple
\* an operation returns is aligned and is what the three files hold, and
\* between operations the files are all missing or aligned.
C17_AlignedAfterCompleteOperations ==
    /\ \A t \in Threads :
          TripleReturned(t) =>
              /\ Aligned(th[t].index, th[t].chunks, th[t].embeddings)
              /\ artifacts = <<th[t].index, th[t].embeddings, th[t].chunks>>
    /\ (\A t \in Threads : th[t].pc \in {"idle", "respond"}) =>
          \/ artifacts = <<Absent, Absent, Absent>>
          \/ /\ \A i \in 1..3 : ~IsAbsent(artifacts[i])
             /\ Aligned(INDEX_PATH, CHUNKS_PATH, EMBEDDINGS_PATH)

\* a load returns a triple of three chunks in a process started after two
\* earlier requests
C17_Witness ==
    \E t \in Threads :
        /\ TripleReturned(t) /\ th[t].via = "loaded"
        /\ Len(th[t].chunks.items) = 3
        /\ nreq >= 3 /\ ncrash >= 1

\* thread t is at line 148 of an ensure_index called without rebuild, and
\* the state holds an index and a chunk list
LoadedNoRebuild(t) ==
    /\ th[t].pc = "check_loaded" /\ ~th[t].rebuild
    /\ State.index # PNone /\ State.chunks # PNone

\* C18: called without rebuild while the state holds an index and a chunk
\* list, ensure_index returns at once, with no load and no build, and
\* changes neither the index, the chunk list nor the three files, whatever
\* use_cleaned, chunk_size and overlap its request carries.
C18_LoadedIsNoOp ==
    [][\A t \in Threads :
          (LoadedNoRebuild(t) /\ Steps(t)) =>
              /\ th'[t].pc = "get_llm" /\ th'[t].via = "cached"
              /\ State' = State
              /\ artifacts' = artifacts]_vars

\* ensure_index has returned without loading or building, in a process
\* that holds the three chunks of an earlier build
C18_Witness ==
    \E t \in Threads :
        /\ th[t].pc = "get_llm" /\ th[t].via = "cached"
        /\ State.index # PNone /\ State.chunks # PNone
        /\ Len(State.chunks.items) = 3

\* thread t is at the last assignment of an ensure_index that was called
\* without rebuild and found nothing loaded
Returning(t) == th[t].pc = "set_chunks" /\ ~th[t].rebuild

\* C19: when an ensure_index called without rebuild returns after its load
\* or its build, the state holds an index and a chunk list, and they are
\* the ones that load or build produced together.
C19_ReturnsLoadedFromOneSource ==
    [][\A t \in Threads :
          (Returning(t) /\ Steps(t)) =>
              /\ State'.index # PNone /\ State'.chunks # PNone
              /\ State'.index = th[t].index
              /\ State'.chunks = th[t].chunks]_vars

\* the handles of the embedding engine and of the language model
Handles(state) == <<state.embedder, state.llm>>

\* C20: while the process lives, a handle that has been constructed is
\* never constructed again: the state keeps the handle it holds, also when
\* the first requests of the process run side by side.
C20_HandlesConstructedOnce ==
    [][ncrash' = ncrash =>
          \A h \in 1..2 :
              Handles(State)[h] # "none" =>
                  Handles(State')[h] = Handles(State)[h]]_vars

\* thread t is at the last assignment of an ensure_index called with
\* rebuild
RebuildCompletes(t) == th[t].pc = "set_chunks" /\ th[t].rebuild

\* C21: when a rebuild completes, the index and the chunk list in the
\* state and in the files are the ones that rebuild made of the documents
\* it read, and hold nothing else.
C21_RebuildReplaces ==
    [][\A t \in Threads :
          (RebuildCompletes(t) /\ Steps(t)) =>
              /\ State'.index = th[t].index
              /\ State'.chunks = th[t].chunks
              /\ INDEX_PATH' = th[t].index
              /\ CHUNKS_PATH' = th[t].chunks]_vars

(***************************************************************************)
(* Claims about the chunks build_index makes                               *)
(***************************************************************************)
\* build_index has made its chunk list in thread t
Built(t) == th[t].pc \in {"write_index", "save_embeddings", "dump_chunks"}

\* how many chunks of the source of chunk i stand before it in the list
Ordinal(items, i) ==
    Cardinality({j \in 1..(i - 1) : items[j].source = items[i].source})

\* C22: every chunk build_index makes is named "<source>__<ordinal>", the
\* ordinal counting the chunks of its source from 0 in list order with no
\* gap, and no two chunks of the list have the same id.
C22_IdsAreSourceAndOrdinal ==
    \A t \in Threads :
        Built(t) =>
            LET items == th[t].chunks.items
            IN  /\ \A i \in 1..Len(items) :
                      items[i].id = items[i].source \o "__"
                                        \o ToString(Ordinal(items, i))
                /\ \A i, j \in 1..Len(items) :
                      items[i].id = items[j].id => i = j

\* a build of two documents: the second document's chunks are numbered
\* from 0 again, after more than one chunk of the first
C22_Witness ==
    \E t \in Threads :
        /\ Built(t)
        /\ LET items == th[t].chunks.items
           IN  \E i \in 3..Len(items) :
                  /\ items[i].id = "policy2__0"
                  /\ items[i - 1].id = "policy1__" \o ToString(i - 2)

(***************************************************************************)
(* Claims about a build killed before it ends                              *)
(***************************************************************************)
\* build_index in thread t has written the index and not yet begun to
\* write the chunk list
BeforeChunksWrite(t) == th[t].pc \in {"save_embeddings", "dump_chunks"}

\* C23: a build that found no artifact writes the chunk list last: at
\* every point before it begins that write, load_index would report "not
\* found".
C23_NotFoundBeforeChunksWrite ==
    \A t \in Threads :
        BeforeChunksWrite(t) => NotFound(INDEX_PATH, CHUNKS_PATH)

(***************************************************************************)
(* Claims about the cached language model and about upload                 *)
(***************************************************************************)
\* thread t calls get_llm while the state holds a handle
LlmCached(t) == th[t].pc = "get_llm" /\ State.llm # "none"

UploadSteps(t) ==
    Steps(t) /\ (th[t].kind = "upload" \/ th'[t].kind = "upload")

\* the last request that set the status was an upload: nothing has been
\* loaded, built or rebuilt since
AfterUpload == State.status[1] = "uploaded"

\* the chunk list holds a chunk of the document named source
HoldsSource(chunk_list, source) ==
    \E i \in 1..Len(chunk_list.items) : chunk_list.items[i].source = source

=============================================================================
